---- MODULE Spec2Model ----
(***************************************************************************)
(* Incremental pull-request synchronisation of digest:                     *)
(*   PRSyncService          (src/src/core/sync/pr_sync.ts)                 *)
(*   IncrementalSyncManager (src/src/core/sync/sync_orchestrator.ts,       *)
(*                           second half: incremental_sync)                *)
(*   SqliteStore            (src/src/core/storage/sqlite_store.ts)         *)
(*   SyncOrchestrator       (src/src/core/sync/sync_orchestrator.ts)       *)
(*   WorkspaceManager.updateRepositorySync (src/src/core/config.ts)        *)
(*                                                                         *)
(* Timestamps are ISO strings in the program and are only ever compared    *)
(* through new Date(..); they are natural numbers here, and the absent     *)
(* value (null, undefined, '') is Null.  One repository is synced; the     *)
(* store holds the rows of that repository.                                *)
(***************************************************************************)
EXTENDS Integers, Sequences, FiniteSets, TLC

(***************************************************************************)
(* Program constants                                                       *)
(***************************************************************************)
perPage == 100

Null == 0

\* the largest element (its successor is not in S: tested first, it is cheap)
Max(S) == CHOOSE x \in S : (x + 1) \notin S /\ \A y \in S : y <= x

Min2(a, b) == IF a <= b THEN a ELSE b

(***************************************************************************)
(* Bounds of the model                                                     *)
(***************************************************************************)
\* longest arbitrary feed head (the most recently updated PRs of the feed)
MaxHead == 2
\* the PRs of a head are numbered 1..MaxNumber
MaxNumber == 3
\* most remote calls that fail in one attempt
MaxFaults == 2

\* update times the remote reports, around the time of the earlier sync
UpdateTimes == {4, 6}
\* synced_at of the rows an earlier sync left in the store
EarlierSyncTime == Max(UpdateTimes) - 1
\* the explicit cutoff a caller may pass as options.since
SinceValues == {Null, 3}
\* feed lengths that span several pages: [100, 0], [100, 40], [100, 100, 37]
LongFeedLens == {perPage, perPage + 40, 2 * perPage + 37}

\* the first clock reading of an attempt is later than every remote update
NowStart == Max(UpdateTimes) + 1

\* a || b on timestamps
OrElse(a, b) == IF a # Null THEN a ELSE b

(***************************************************************************)
(* Remote Source Client: what the mocked octokit returns                   *)
(***************************************************************************)
PRStates == {"open", "closed"}

\* RawPR, with the fields the sync reads
RawPR(n, s, u) ==
    [number |-> n, state |-> s, updated_at |-> u, created_at |-> 1,
     merged_at |-> IF s = "closed" THEN u ELSE Null]

Candidates == {RawPR(n, s, u) : n \in 1..MaxNumber, s \in PRStates, u \in UpdateTimes}

\* feeds are sorted by update time, most recent first, and list a PR once
IsFeed(h) ==
    /\ \A i, j \in DOMAIN h : i < j => h[i].updated_at >= h[j].updated_at
    /\ \A i, j \in DOMAIN h : i # j => h[i].number # h[j].number

Heads(maxLen) ==
    UNION {{h \in [1..k -> Candidates] : IsFeed(h)} : k \in 0..maxLen}

\* pulls.listFiles: the file names of a PR
UpstreamFiles(n) ==
    IF n = 1 THEN <<"src/feature.ts", "src/feature.test.ts">>
    ELSE IF n = 2 THEN <<"src/component.js">>
    ELSE IF n = 3 THEN <<"tests/unit.js">>
    ELSE << >>

\* pulls.listReviews: the review entries of a PR (login "" is a null user,
\* state "" a missing state, submitted_at Null a missing submission time)
UpstreamReviews(n) ==
    IF n = 1 THEN << [login |-> "reviewer1", state |-> "APPROVED", submitted_at |-> 2],
                     [login |-> "reviewer2", state |-> "CHANGES_REQUESTED", submitted_at |-> 2] >>
    ELSE IF n = 2 THEN << [login |-> "", state |-> "COMMENTED", submitted_at |-> 2],
                          [login |-> "reviewer4", state |-> "", submitted_at |-> 2],
                          [login |-> "reviewer1", state |-> "COMMENTED", submitted_at |-> 3],
                          [login |-> "reviewer5", state |-> "APPROVED", submitted_at |-> Null] >>
    ELSE IF n = 3 THEN << [login |-> "reviewer2", state |-> "CHANGES_REQUESTED", submitted_at |-> 2],
                          [login |-> "reviewer2", state |-> "APPROVED", submitted_at |-> 3] >>
    ELSE << >>

(***************************************************************************)
(* Entity Store                                                            *)
(***************************************************************************)
EmptyStore == [prs |-> << >>, reviews |-> << >>]

\* function f without the keys in K
Without(f, K) == [k \in DOMAIN f \ K |-> f[k]]

\* function f with key k bound to v
With(f, k, v) == [x \in DOMAIN f \cup {k} |-> IF x = k THEN v ELSE f[x]]

\* an upsert that keeps the stored merged_at when the new record has none
addPRKeepMerged(db, pr) ==
    LET cascade == IF pr.number \in DOMAIN db.prs
                   THEN {k \in DOMAIN db.reviews : k[1] = pr.number}
                   ELSE {}
        row == IF pr.number \in DOMAIN db.prs /\ pr.merged_at = Null
               THEN [pr EXCEPT !.merged_at = db.prs[pr.number].merged_at]
               ELSE pr
    IN [prs |-> With(db.prs, pr.number, row),
        reviews |-> Without(db.reviews, cascade)]

\* INSERT OR REPLACE INTO prs: a conflicting row is deleted first, and with
\* foreign_keys = ON the delete cascades to the reviews of that PR
addPR(db, pr) ==
    LET cascade == IF pr.number \in DOMAIN db.prs
                   THEN {k \in DOMAIN db.reviews : k[1] = pr.number}
                   ELSE {}
    IN [prs |-> With(db.prs, pr.number, pr),
        reviews |-> Without(db.reviews, cascade)]

\* an insert that leaves a review already stored for the key as it is
addReviewIgnore(db, review) ==
    IF <<review.pr_number, review.reviewer>> \in DOMAIN db.reviews THEN db
    ELSE [db EXCEPT !.reviews = With(db.reviews, <<review.pr_number, review.reviewer>>, review)]

\* INSERT OR REPLACE INTO reviews, keyed by (pr_number, reviewer)
addReview(db, review) ==
    [db EXCEPT !.reviews = With(db.reviews, <<review.pr_number, review.reviewer>>, review)]

\* getPRs({repository})
getPRs(db) == {db.prs[n] : n \in DOMAIN db.prs}

(***************************************************************************)
(* Sync State Resolver and Classifier (IncrementalSyncManager)             *)
(***************************************************************************)
getLastSyncedPRNumber(db) ==
    LET existingPRs == getPRs(db)
    IN IF existingPRs = {} THEN 0 ELSE Max({pr.number : pr \in existingPRs})

getLastSyncTime(db) ==
    LET existingPRs == getPRs(db)
        withTime == {pr.synced_at : pr \in {p \in existingPRs : p.synced_at # Null}}
    IN IF existingPRs = {} THEN Null
       ELSE IF withTime = {} THEN Null ELSE Max(withTime)

\* classify with the terminal test ahead of the number test
classifyTerminalFirst(lastSyncedPRNumber, lastSyncTime, prNumber, prState, prUpdatedAt) ==
    IF prState = "closed" \/ prState = "merged"
    THEN [shouldProcess |-> FALSE, reason |-> "immutable-closed"]
    ELSE IF prNumber > lastSyncedPRNumber
    THEN [shouldProcess |-> TRUE, reason |-> "new-pr"]
    ELSE IF prState = "open" /\ lastSyncTime # Null /\ prUpdatedAt > lastSyncTime
    THEN [shouldProcess |-> TRUE, reason |-> "updated-open-pr"]
    ELSE [shouldProcess |-> FALSE, reason |-> "already-synced"]

\* classify without the test that lastSyncTime is set
classifyNoNullTest(lastSyncedPRNumber, lastSyncTime, prNumber, prState, prUpdatedAt) ==
    IF prNumber > lastSyncedPRNumber
    THEN [shouldProcess |-> TRUE, reason |-> "new-pr"]
    ELSE IF prState = "closed" \/ prState = "merged"
    THEN [shouldProcess |-> FALSE, reason |-> "immutable-closed"]
    ELSE IF prState = "open" /\ prUpdatedAt > lastSyncTime
    THEN [shouldProcess |-> TRUE, reason |-> "updated-open-pr"]
    ELSE [shouldProcess |-> FALSE, reason |-> "already-synced"]

\* the decision table of shouldProcessPR, on the derived sync state
classify(lastSyncedPRNumber, lastSyncTime, prNumber, prState, prUpdatedAt) ==
    IF prNumber > lastSyncedPRNumber
    THEN [shouldProcess |-> TRUE, reason |-> "new-pr"]
    ELSE IF prState = "closed" \/ prState = "merged"
    THEN [shouldProcess |-> FALSE, reason |-> "immutable-closed"]
    ELSE IF prState = "open" /\ lastSyncTime # Null /\ prUpdatedAt > lastSyncTime
    THEN [shouldProcess |-> TRUE, reason |-> "updated-open-pr"]
    ELSE [shouldProcess |-> FALSE, reason |-> "already-synced"]

\* shouldProcessPR reads the derived sync state from the store on every call
shouldProcessPR(db, prNumber, prState, prUpdatedAt) ==
    classify(getLastSyncedPRNumber(db), getLastSyncTime(db),
             prNumber, prState, prUpdatedAt)

(***************************************************************************)
(* Repository identifiers: sequences of characters                         *)
(***************************************************************************)
\* longest identifier tried
MaxName == 3

Chars == {"o", "/"}

Names == UNION {[1..k -> Chars] : k \in 0..MaxName}

\* parseRepository accepting an empty repo part
parseRepositoryEmptyRepo(repository) ==
    \E i \in DOMAIN repository :
        /\ repository[i] = "/"
        /\ i > 1
        /\ \A j \in DOMAIN repository : j # i => repository[j] # "/"

\* repository.match(/^([^/]+)\/([^/]+)$/): a slash with a non-empty slash-free
\* part on either side
parseRepository(repository) ==
    \E i \in DOMAIN repository :
        /\ repository[i] = "/"
        /\ i > 1
        /\ i < Len(repository)
        /\ \A j \in DOMAIN repository : j # i => repository[j] # "/"

\* the identifier of the tests, 'owner/repo'
OwnerRepo == <<"o", "/", "o">>

\* the identifiers an attempt is started with
SyncNames == Names

InvalidFormat == "Invalid repository format"

(***************************************************************************)
(* Fetch-Process Pipeline (PRSyncService)                                  *)
(***************************************************************************)
VARIABLES
    opts,            \* PRSyncOptions: force, since
    head,            \* the feed: an arbitrary head ...
    padLen,          \* ... followed by padLen closed PRs
    padOrder,        \* PR numbers of the padding ascend or descend along the feed
    store0,          \* the store as the attempt found it
    store,           \* SqliteStore: prs and reviews of the repository
    now,             \* the clock read by new Date()
    pc,              \* where syncRepository stands
    page,            \* fetchAndProcessIncremental: page
    idx,             \* position of the for loop within the page
    snap,            \* fetchPRsIncremental: lastSyncedPRNumber, lastSyncTime
    newPRs,          \* fetchPRsIncremental: newPRs (PR numbers)
    updatedPRs,      \* fetchPRsIncremental: updatedPRs (PR numbers)
    totalProcessed,  \* fetchAndProcessIncremental: totalProcessed
    result,          \* PRSyncResult
    progress,        \* the events handed to onProgress
    calls,           \* the remote calls made, in order
    faults,          \* the remote calls that failed so far: <<kind, arg>>
    lastDecision,    \* the latest call of shouldProcessPR and what it returned
    ideal,           \* the same attempt with no auxiliary fetch failing
    thrown,          \* the error syncRepository rejected with, "" if none
    attempt,         \* 1, and 2 once the sync was run again after a crash
    upserts,         \* the records a direct caller of the store handed to addPR
    repos,           \* config.repositories: the repository-tracking state
    cur,             \* syncAll: position of the for loop in activeRepos, 0 outside
    allResult,       \* SyncAllResult
    log              \* what syncAll did, in order: attempts, tracking writes, callbacks

vars == <<opts, head, padLen, padOrder, store0, store, now, pc, page, idx, snap, newPRs,
          updatedPRs, totalProcessed, result, progress, calls, faults,
          lastDecision, ideal, thrown, attempt, upserts, repos, cur, allResult, log>>

\* what the pipeline of one attempt never writes
orchVars == <<thrown, attempt, upserts, repos, cur, allResult, log>>

\* numbers of the padding PRs follow those of the head
PadBase == MaxNumber

PadTime == Min2(4, Max(UpdateTimes))

PadPR(j) ==
    RawPR(IF padOrder = "asc" THEN PadBase + j ELSE PadBase + padLen + 1 - j,
          "closed", PadTime)

FeedLen == Len(head) + padLen

FeedAt(i) == IF i <= Len(head) THEN head[i] ELSE PadPR(i - Len(head))

\* pulls.list({per_page, page}): how many PRs page p holds
PageLen(p) ==
    LET rest == FeedLen - (p - 1) * perPage
    IN IF rest <= 0 THEN 0 ELSE Min2(perPage, rest)

\* the PR the for loop stands at
\* a loop that walks the page from its last PR to its first
CurrentPRReversed == FeedAt((page - 1) * perPage + PageLen(page) + 1 - idx)

CurrentPR == FeedAt((page - 1) * perPage + idx)

\* file names of the model that match one of the testPatterns
TestFileNames == {"src/feature.test.ts", "tests/unit.js"}

detectTests(files) == \E i \in DOMAIN files : files[i] \in TestFileNames

\* fetchPRFiles / fetchPRReviews: a failed request yields the empty list
fetchPRFiles(n, ok) == IF ok THEN UpstreamFiles(n) ELSE << >>

fetchPRReviews(n, ok) == IF ok THEN UpstreamReviews(n) ELSE << >>

RECURSIVE storeReviewsStopAtInvalid(_, _, _, _)
\* a review loop that ends at the first entry it cannot store
storeReviewsStopAtInvalid(db, n, reviews, t) ==
    IF reviews = << >> THEN [db |-> db, newReviews |-> 0]
    ELSE LET rawReview == Head(reviews)
             keep == rawReview.login # "" /\ rawReview.state # ""
                     /\ rawReview.submitted_at # Null
         IN IF ~keep THEN [db |-> db, newReviews |-> 0]
            ELSE LET db1 == addReview(db, [pr_number |-> n, reviewer |-> rawReview.login,
                                           state |-> rawReview.state,
                                           submitted_at |-> rawReview.submitted_at,
                                           synced_at |-> t])
                     rest == storeReviewsStopAtInvalid(db1, n, Tail(reviews), t)
                 IN [db |-> rest.db, newReviews |-> rest.newReviews + 1]

RECURSIVE storeReviews(_, _, _, _)
\* the review loop of processPR: [db, newReviews]
storeReviews(db, n, reviews, t) ==
    IF reviews = << >> THEN [db |-> db, newReviews |-> 0]
    ELSE LET rawReview == Head(reviews)
             keep == rawReview.login # "" /\ rawReview.state # ""
                     /\ rawReview.submitted_at # Null
             db1 == IF keep
                    THEN addReview(db, [pr_number |-> n, reviewer |-> rawReview.login,
                                        state |-> rawReview.state,
                                        submitted_at |-> rawReview.submitted_at,
                                        synced_at |-> t])
                    ELSE db
             rest == storeReviews(db1, n, Tail(reviews), t)
         IN [db |-> rest.db,
             newReviews |-> rest.newReviews + (IF keep THEN 1 ELSE 0)]

\* processPR giving up on the PR when its file list cannot be fetched
processPRAbortOnFailure(db, rawPR, filesOk, reviewsOk, t) ==
    IF ~filesOk THEN [db |-> db, newReviews |-> 0]
    ELSE LET prRecord == [number |-> rawPR.number, merged_at |-> rawPR.merged_at,
                          has_tests |-> detectTests(UpstreamFiles(rawPR.number)),
                          synced_at |-> t]
         IN storeReviews(addPR(db, prRecord), rawPR.number,
                         fetchPRReviews(rawPR.number, reviewsOk), t)

\* processPR: [db, newReviews] after the PR and its reviews are stored
processPR(db, rawPR, filesOk, reviewsOk, t) ==
    LET files == fetchPRFiles(rawPR.number, filesOk)
        prRecord == [number |-> rawPR.number, merged_at |-> rawPR.merged_at,
                     has_tests |-> detectTests(files), synced_at |-> t]
        db1 == addPR(db, prRecord)
    IN storeReviews(db1, rawPR.number, fetchPRReviews(rawPR.number, reviewsOk), t)

\* the two auxiliary requests of processPR, as the remote saw them
AuxCalls(n, filesOk, reviewsOk) ==
    << [kind |-> "files", arg |-> n, since |-> Null, ok |-> filesOk],
       [kind |-> "reviews", arg |-> n, since |-> Null, ok |-> reviewsOk] >>

FaultCount(filesOk, reviewsOk) ==
    (IF filesOk THEN 0 ELSE 1) + (IF reviewsOk THEN 0 ELSE 1)

AuxFaults(n, filesOk, reviewsOk) ==
    (IF filesOk THEN {} ELSE {<<"files", n>>})
        \cup (IF reviewsOk THEN {} ELSE {<<"reviews", n>>})

\* the remote may fail the auxiliary requests of the head PRs only
MayFail(n, filesOk, reviewsOk) ==
    /\ Cardinality(faults) + FaultCount(filesOk, reviewsOk) <= MaxFaults
    /\ (n > MaxNumber => filesOk /\ reviewsOk)

\* syncRepository, after fetchPRsIncremental returned
Completed(res, np, up) ==
    [res EXCEPT !.totalPRs = Len(np) + Len(up),
                !.newPRs = Len(np),
                !.updatedPRs = Len(up)]

\* completion without the storing event
CompletionEventsNoStoring(total) ==
    << [phase |-> "complete", processed |-> total, page |-> 0] >>

CompletionEvents(total) ==
    IF total = 0
    THEN << [phase |-> "complete", processed |-> 0, page |-> 0] >>
    ELSE << [phase |-> "storing", processed |-> total, page |-> 0],
            [phase |-> "complete", processed |-> total, page |-> 0] >>

NoResult ==
    [totalPRs |-> 0, newPRs |-> 0, updatedPRs |-> 0, newReviews |-> 0,
     errors |-> << >>, lastSyncAt |-> Null]

NoDecision ==
    [number |-> 0, state |-> "", updated_at |-> Null, reason |-> "none"]

\* rows an earlier sync of the repository left behind
OldRow(n, merged) ==
    [number |-> n, merged_at |-> IF merged THEN 2 ELSE Null,
     has_tests |-> FALSE, synced_at |-> EarlierSyncTime]

OldReview(n) ==
    [pr_number |-> n, reviewer |-> "reviewer3", state |-> "APPROVED",
     submitted_at |-> 2, synced_at |-> EarlierSyncTime]

\* the state reviewer1 was seen in by the earlier sync
OldReviewBy1(n) ==
    [pr_number |-> n, reviewer |-> "reviewer1", state |-> "COMMENTED",
     submitted_at |-> 1, synced_at |-> EarlierSyncTime]

\* a number above every PR of the feed
HighNumber == MaxNumber + Max(LongFeedLens) + 1

InitStores ==
    { EmptyStore,
      [prs |-> (1 :> OldRow(1, FALSE)),
       reviews |-> (<<1, "reviewer3">> :> OldReview(1)) @@ (<<1, "reviewer1">> :> OldReviewBy1(1))],
      [prs |-> (HighNumber :> OldRow(HighNumber, TRUE)), reviews |-> << >>] }

\* heads of the feeds that span several pages
LongHeads == {h \in Heads(1) : \A i \in DOMAIN h : h[i].number = 1 /\ h[i].updated_at = Max(UpdateTimes)}

\* outside syncAll: no tracked repositories, no loop
NoOrchestrator ==
    /\ thrown = ""
    /\ attempt = 1
    /\ upserts = << >>
    /\ repos = << >>
    /\ cur = 0
    /\ allResult = [totalRepositories |-> 0, successfulSyncs |-> 0, failedSyncs |-> 0,
                    results |-> << >>]
    /\ log = << >>

Init ==
    /\ opts \in [force : BOOLEAN, since : SinceValues, repository : SyncNames]
    /\ store0 \in InitStores
    /\ store = store0
    /\ \/ /\ opts.repository = OwnerRepo
          /\ head \in Heads(MaxHead)
          /\ padLen = 0
          /\ padOrder = "asc"
       \/ /\ opts.repository = OwnerRepo
          /\ head \in LongHeads
          /\ padLen \in {l - Len(head) : l \in LongFeedLens}
          /\ padOrder \in {"asc", "desc"}
       \/ /\ opts.repository # OwnerRepo
          /\ head \in Heads(1)
          /\ padLen = 0
          /\ padOrder = "asc"
    /\ now = NowStart
    /\ pc = "idle"
    /\ page = 0
    /\ idx = 0
    /\ snap = [lastSyncedPRNumber |-> 0, lastSyncTime |-> Null]
    /\ newPRs = << >>
    /\ updatedPRs = << >>
    /\ totalProcessed = 0
    /\ result = [totalPRs |-> 0, newPRs |-> 0, updatedPRs |-> 0, newReviews |-> 0,
                 errors |-> << >>, lastSyncAt |-> Null]
    /\ progress = << >>
    /\ calls = << >>
    /\ faults = {}
    /\ lastDecision = NoDecision
    /\ ideal = [store |-> store, now |-> NowStart, newPRs |-> 0, updatedPRs |-> 0]
    /\ NoOrchestrator

\* parseRepository throws: syncRepository rejects before it built a result
RejectRepository ==
    /\ pc = "idle"
    /\ ~parseRepository(opts.repository)
    /\ thrown' = InvalidFormat
    /\ pc' = "rejected"
    /\ UNCHANGED <<opts, head, padLen, padOrder, store0, store, now, page, idx, snap, newPRs,
                   updatedPRs, totalProcessed, result, progress, calls, faults,
                   lastDecision, ideal, attempt, upserts, repos, cur, allResult, log>>

\* syncRepository up to the first page request
SyncRepository ==
    /\ pc = "idle"
    /\ parseRepository(opts.repository)
    /\ result' = [totalPRs |-> 0, newPRs |-> 0, updatedPRs |-> 0, newReviews |-> 0,
                  errors |-> << >>, lastSyncAt |-> now]
    /\ progress' = << [phase |-> "fetching", processed |-> 0, page |-> 0] >>
    /\ snap' = IF opts.force
               THEN [lastSyncedPRNumber |-> 0, lastSyncTime |-> opts.since]
               ELSE [lastSyncedPRNumber |-> getLastSyncedPRNumber(store),
                     lastSyncTime |-> getLastSyncTime(store)]
    /\ newPRs' = << >>
    /\ updatedPRs' = << >>
    /\ page' = 1
    /\ totalProcessed' = 0
    /\ pc' = "list"
    /\ UNCHANGED <<opts, head, padLen, padOrder, store0, store, now, idx, calls, faults,
                   lastDecision, ideal>>
    /\ UNCHANGED orchVars

\* a page request that takes since from the store as it is now
PageRequestLive(ok) ==
    [kind |-> "list", arg |-> page, since |-> getLastSyncTime(store), ok |-> ok]

\* the request of one page: params.since is set when lastSyncTime is truthy
PageRequest(ok) ==
    [kind |-> "list", arg |-> page, since |-> snap.lastSyncTime, ok |-> ok]

\* a failed page request that is recorded and then asked again
ListPageFailRetry ==
    /\ pc = "list"
    /\ Cardinality(faults) < MaxFaults
    /\ calls' = Append(calls, [kind |-> "list", arg |-> page,
                               since |-> snap.lastSyncTime, ok |-> FALSE])
    /\ faults' = faults \cup {<<"list", page>>}
    /\ result' = [result EXCEPT !.errors = Append(@, [pr |-> 0, error |-> "Sync failed"])]
    /\ pc' = "list"
    /\ UNCHANGED <<opts, head, padLen, padOrder, store0, store, now, page, idx, snap, newPRs,
                   updatedPRs, totalProcessed, progress, lastDecision, ideal>>
    /\ UNCHANGED orchVars

\* pulls.list throws: the error reaches the catch of syncRepository
ListPageFail ==
    /\ pc = "list"
    /\ Cardinality(faults) < MaxFaults
    /\ calls' = Append(calls, PageRequest(FALSE))
    /\ faults' = faults \cup {<<"list", page>>}
    /\ result' = [result EXCEPT !.errors = Append(@, [pr |-> 0, error |-> "Sync failed"])]
    /\ pc' = "done"
    /\ UNCHANGED <<opts, head, padLen, padOrder, store0, store, now, page, idx, snap, newPRs,
                   updatedPRs, totalProcessed, progress, lastDecision, ideal>>
    /\ UNCHANGED orchVars

\* pulls.list answers; an empty page ends the loop and the attempt
ListPageOk ==
    /\ pc = "list"
    /\ calls' = Append(calls, PageRequest(TRUE))
    /\ IF PageLen(page) = 0
       THEN /\ pc' = "done"
            /\ idx' = 0
            /\ result' = Completed(result, newPRs, updatedPRs)
            /\ progress' = progress \o CompletionEvents(Len(newPRs) + Len(updatedPRs))
       ELSE /\ pc' = "pr"
            /\ idx' = 1
            /\ UNCHANGED <<result, progress>>
    /\ UNCHANGED <<opts, head, padLen, padOrder, store0, store, now, page, snap, newPRs,
                   updatedPRs, totalProcessed, faults, lastDecision, ideal>>
    /\ UNCHANGED orchVars

\* the loop leaving after a full page too
LastPageInclusive(n) == n <= perPage

\* "if we got fewer than perPage, we're done"
LastPage(n) == n < perPage

\* a loop that also ends after a page in which nothing was processed so far
EndOfItemStopIdle(np, up, tp, res) ==
    IF idx < PageLen(page)
    THEN /\ pc' = "pr"
         /\ idx' = idx + 1
         /\ page' = page
         /\ progress' = progress
         /\ result' = res
    ELSE LET ev == [phase |-> "processing", processed |-> tp, page |-> page]
         IN IF LastPage(PageLen(page)) \/ tp = 0
            THEN /\ pc' = "done"
                 /\ idx' = 0
                 /\ page' = page
                 /\ progress' = Append(progress, ev) \o CompletionEvents(Len(np) + Len(up))
                 /\ result' = Completed(res, np, up)
            ELSE /\ pc' = "list"
                 /\ idx' = 0
                 /\ page' = page + 1
                 /\ progress' = Append(progress, ev)
                 /\ result' = res

\* the end of one iteration of the for loop, and of the page after its last PR
EndOfItem(np, up, tp, res) ==
    IF idx < PageLen(page)
    THEN /\ pc' = "pr"
         /\ idx' = idx + 1
         /\ page' = page
         /\ progress' = progress
         /\ result' = res
    ELSE LET ev == [phase |-> "processing", processed |-> tp, page |-> page]
         IN IF LastPage(PageLen(page))
            THEN /\ pc' = "done"
                 /\ idx' = 0
                 /\ page' = page
                 /\ progress' = Append(progress, ev) \o CompletionEvents(Len(np) + Len(up))
                 /\ result' = Completed(res, np, up)
            ELSE /\ pc' = "list"
                 /\ idx' = 0
                 /\ page' = page + 1
                 /\ progress' = Append(progress, ev)
                 /\ result' = res

\* the attempt with no auxiliary failure, one PR further
IdealStep(pr) ==
    LET d == IF opts.force THEN [shouldProcess |-> TRUE, reason |-> "new-pr"]
             ELSE shouldProcessPR(ideal.store, pr.number, pr.state,
                                  OrElse(pr.updated_at, pr.created_at))
    IN IF d.shouldProcess
       THEN [store |-> processPR(ideal.store, pr, TRUE, TRUE, ideal.now).db,
             now |-> ideal.now + 1,
             newPRs |-> ideal.newPRs + (IF d.reason = "new-pr" THEN 1 ELSE 0),
             updatedPRs |-> ideal.updatedPRs + (IF d.reason = "updated-open-pr" THEN 1 ELSE 0)]
       ELSE ideal

\* force mode: every PR of the page is pushed to newPRs and processed
ProcessForce ==
    /\ pc = "pr"
    /\ opts.force
    /\ \E filesOk, reviewsOk \in BOOLEAN :
         LET pr == CurrentPR
             out == processPR(store, pr, filesOk, reviewsOk, now)
         IN /\ MayFail(pr.number, filesOk, reviewsOk)
            /\ faults' = faults \cup AuxFaults(pr.number, filesOk, reviewsOk)
            /\ calls' = calls \o AuxCalls(pr.number, filesOk, reviewsOk)
            /\ store' = out.db
            /\ now' = now + 1
            /\ newPRs' = Append(newPRs, pr.number)
            /\ totalProcessed' = totalProcessed + 1
            /\ ideal' = IdealStep(pr)
            /\ EndOfItem(newPRs', updatedPRs, totalProcessed',
                         [result EXCEPT !.newReviews = @ + out.newReviews])
    /\ UNCHANGED <<opts, head, padLen, padOrder, store0, snap, updatedPRs, lastDecision>>
    /\ UNCHANGED orchVars

\* the decision of shouldProcessPR on the PR the loop stands at
Decision(pr) ==
    shouldProcessPR(store, pr.number, pr.state, OrElse(pr.updated_at, pr.created_at))

DecisionRecord(pr) ==
    [number |-> pr.number, state |-> pr.state,
     updated_at |-> OrElse(pr.updated_at, pr.created_at),
     reason |-> Decision(pr).reason]

\* normal mode, shouldProcess: the PR is categorised and processed
ProcessAccepted ==
    /\ pc = "pr"
    /\ ~opts.force
    /\ Decision(CurrentPR).shouldProcess
    /\ \E filesOk, reviewsOk \in BOOLEAN :
         LET pr == CurrentPR
             decision == Decision(pr)
             out == processPR(store, pr, filesOk, reviewsOk, now)
         IN /\ MayFail(pr.number, filesOk, reviewsOk)
            /\ faults' = faults \cup AuxFaults(pr.number, filesOk, reviewsOk)
            /\ calls' = calls \o AuxCalls(pr.number, filesOk, reviewsOk)
            /\ lastDecision' = DecisionRecord(pr)
            /\ newPRs' = IF decision.reason = "new-pr"
                         THEN Append(newPRs, pr.number) ELSE newPRs
            /\ updatedPRs' = IF decision.reason = "updated-open-pr"
                             THEN Append(updatedPRs, pr.number) ELSE updatedPRs
            /\ store' = out.db
            /\ now' = now + 1
            /\ totalProcessed' = totalProcessed + 1
            /\ ideal' = IdealStep(pr)
            /\ EndOfItem(newPRs', updatedPRs', totalProcessed',
                         [result EXCEPT !.newReviews = @ + out.newReviews])
    /\ UNCHANGED <<opts, head, padLen, padOrder, store0, snap>>
    /\ UNCHANGED orchVars

\* a skip that still asks for the file list of the PR
SkipPRTouch ==
    /\ pc = "pr"
    /\ ~opts.force
    /\ ~Decision(CurrentPR).shouldProcess
    /\ lastDecision' = DecisionRecord(CurrentPR)
    /\ ideal' = IdealStep(CurrentPR)
    /\ calls' = Append(calls, [kind |-> "files", arg |-> CurrentPR.number, ok |-> TRUE])
    /\ EndOfItem(newPRs, updatedPRs, totalProcessed, result)
    /\ UNCHANGED <<opts, head, padLen, padOrder, store0, store, now, snap, newPRs, updatedPRs,
                   totalProcessed, faults>>
    /\ UNCHANGED orchVars

\* normal mode, not shouldProcess: the PR is skipped
SkipPR ==
    /\ pc = "pr"
    /\ ~opts.force
    /\ ~Decision(CurrentPR).shouldProcess
    /\ lastDecision' = DecisionRecord(CurrentPR)
    /\ ideal' = IdealStep(CurrentPR)
    /\ EndOfItem(newPRs, updatedPRs, totalProcessed, result)
    /\ UNCHANGED <<opts, head, padLen, padOrder, store0, store, now, snap, newPRs, updatedPRs,
                   totalProcessed, calls, faults>>
    /\ UNCHANGED orchVars

\* processPR throws at the store write of the PR record (storage.addPR): the
\* PR was pushed to newPRs / updatedPRs before, the catch around processPR
\* logs to the console and the loop goes on
ProcessPRThrows ==
    /\ pc = "pr"
    /\ opts.force \/ Decision(CurrentPR).shouldProcess
    /\ \E filesOk \in BOOLEAN :
         LET pr == CurrentPR
             decision == IF opts.force THEN [shouldProcess |-> TRUE, reason |-> "new-pr"]
                         ELSE Decision(pr)
         IN /\ Cardinality(faults) + FaultCount(filesOk, TRUE) + 1 <= MaxFaults
            /\ faults' = faults \cup AuxFaults(pr.number, filesOk, TRUE)
                                 \cup {<<"store", pr.number>>}
            /\ calls' = Append(calls, AuxCalls(pr.number, filesOk, TRUE)[1])
            /\ lastDecision' = IF opts.force THEN lastDecision ELSE DecisionRecord(pr)
            /\ newPRs' = IF decision.reason = "new-pr"
                         THEN Append(newPRs, pr.number) ELSE newPRs
            /\ updatedPRs' = IF decision.reason = "updated-open-pr"
                             THEN Append(updatedPRs, pr.number) ELSE updatedPRs
            /\ now' = now + 1
            /\ ideal' = IdealStep(pr)
            /\ EndOfItem(newPRs', updatedPRs', totalProcessed, result)
    /\ UNCHANGED <<opts, head, padLen, padOrder, store0, store, snap, totalProcessed>>
    /\ UNCHANGED orchVars

Next ==
    \/ SyncRepository
    \/ RejectRepository
    \/ ListPageOk
    \/ ListPageFail
    \/ ProcessForce
    \/ ProcessAccepted
    \/ SkipPR

Spec == Init /\ [][Next]_vars

(***************************************************************************)
(* Attempts in which the store may refuse a write                          *)
(***************************************************************************)
\* the feeds of a single page
InitShort == Init /\ padLen = 0

NextStoreFault ==
    \/ Next
    \/ ProcessPRThrows

SpecStoreFault == InitShort /\ [][NextStoreFault]_vars

(***************************************************************************)
(* An attempt that is interrupted, and the sync that is run after it       *)
(***************************************************************************)
\* the process dies between two steps of the first attempt: what was upserted
\* stays in the store
Interrupt ==
    /\ attempt = 1
    /\ pc \in {"list", "pr"}
    /\ pc' = "crashed"
    /\ UNCHANGED <<opts, head, padLen, padOrder, store0, store, now, page, idx, snap, newPRs,
                   updatedPRs, totalProcessed, result, progress, calls, faults,
                   lastDecision, ideal>>
    /\ UNCHANGED orchVars

\* the next run: a non-force syncRepository of the same repository, with the
\* remote as it was
Resume ==
    /\ pc = "crashed"
    /\ attempt' = 2
    /\ opts' = [opts EXCEPT !.force = FALSE]
    /\ store0' = store
    /\ now' = now + 1
    /\ pc' = "idle"
    /\ page' = 0
    /\ idx' = 0
    /\ snap' = [lastSyncedPRNumber |-> 0, lastSyncTime |-> Null]
    /\ newPRs' = << >>
    /\ updatedPRs' = << >>
    /\ totalProcessed' = 0
    /\ result' = NoResult
    /\ progress' = << >>
    /\ calls' = << >>
    /\ faults' = {}
    /\ lastDecision' = NoDecision
    /\ ideal' = [store |-> store, now |-> now + 1, newPRs |-> 0, updatedPRs |-> 0]
    /\ UNCHANGED <<head, padLen, padOrder, store, thrown, upserts, repos, cur, allResult, log>>

\* the first sync of a repository: nothing is stored yet
InitResume == InitShort /\ store0 = EmptyStore

NextResume ==
    \/ Next
    \/ Interrupt
    \/ Resume

SpecResume == InitResume /\ [][NextResume]_vars

(***************************************************************************)
(* SyncOrchestrator.syncAll over the tracked repositories                  *)
(***************************************************************************)
\* longest list of tracked repositories
MaxRepos == 2

\* the i-th tracked repository is named oo..o/o, or oo..o when its entry in
\* the configuration file is not of the form owner/repo
NameAt(i, wellFormed) ==
    [j \in 1..i |-> "o"] \o (IF wellFormed THEN <<"/", "o">> ELSE << >>)

\* an error entry an earlier run left in the tracking state
OldError == [error |-> "Sync failed: earlier", type |-> "api"]

\* TrackedRepository entries at position i of config.repositories
TrackedAt(i) ==
    { [name |-> NameAt(i, TRUE), active |-> TRUE, syncSince |-> 3,
       lastSyncAt |-> Null, errors |-> << >>],
      [name |-> NameAt(i, TRUE), active |-> TRUE, syncSince |-> 3,
       lastSyncAt |-> EarlierSyncTime, errors |-> <<OldError>>],
      [name |-> NameAt(i, TRUE), active |-> FALSE, syncSince |-> Null,
       lastSyncAt |-> Null, errors |-> << >>],
      [name |-> NameAt(i, FALSE), active |-> TRUE, syncSince |-> Null,
       lastSyncAt |-> EarlierSyncTime, errors |-> <<OldError>>] }

RepoLists ==
    UNION {{l \in [1..k -> UNION {TrackedAt(i) : i \in 1..k}] :
                \A i \in 1..k : l[i] \in TrackedAt(i)} : k \in 1..MaxRepos}

\* getActiveRepositories
getActiveRepositories(rs) == SelectSeq(rs, LAMBDA r : r.active)

\* what the remote holds for a repository: its feed
RepoFeed(name) ==
    IF Len(name) % 3 = 0 THEN << RawPR(1, "open", 6) >>
    ELSE IF Len(name) % 3 = 1 THEN << RawPR(2, "closed", 4), RawPR(1, "open", 4) >>
    ELSE << >>

\* the rows of a repository in the store: none before its first sync
RepoRows(repo) ==
    IF repo.lastSyncAt = Null THEN EmptyStore
    ELSE [prs |-> (1 :> OldRow(1, FALSE)), reviews |-> (<<1, "reviewer3">> :> OldReview(1))]

\* updateRepositorySync writing the timestamp only together with errors
updateRepositorySyncWithErrors(rs, repository, lastSyncAt, errors) ==
    [i \in DOMAIN rs |->
        IF rs[i].name = repository /\ errors # << >>
        THEN [rs[i] EXCEPT !.lastSyncAt = lastSyncAt, !.errors = errors]
        ELSE rs[i]]

\* the last k entries of a list (errors.slice(-5))
Last(q, k) == IF Len(q) <= k THEN q ELSE SubSeq(q, Len(q) - k + 1, Len(q))

\* WorkspaceManager.updateRepositorySync
updateRepositorySync(rs, repository, lastSyncAt, errors) ==
    [i \in DOMAIN rs |->
        IF rs[i].name = repository
        THEN [rs[i] EXCEPT !.lastSyncAt = lastSyncAt,
                           !.errors = IF errors # << >> THEN Last(errors, 5) ELSE @]
        ELSE rs[i]]

\* syncResult.errors.map(e => ({timestamp, error: e.error, type: 'api'}))
ApiErrors(errors) == [i \in DOMAIN errors |-> [error |-> errors[i].error, type |-> "api"]]

InitSyncAll ==
    /\ opts \in [force : BOOLEAN, since : {Null}, repository : {<< >>}]
    /\ repos \in RepoLists
    /\ store0 = EmptyStore
    /\ store = EmptyStore
    /\ head = << >>
    /\ padLen = 0
    /\ padOrder = "asc"
    /\ now = NowStart
    /\ pc = "syncAll"
    /\ page = 0
    /\ idx = 0
    /\ snap = [lastSyncedPRNumber |-> 0, lastSyncTime |-> Null]
    /\ newPRs = << >>
    /\ updatedPRs = << >>
    /\ totalProcessed = 0
    /\ result = NoResult
    /\ progress = << >>
    /\ calls = << >>
    /\ faults = {}
    /\ lastDecision = NoDecision
    /\ ideal = [store |-> EmptyStore, now |-> NowStart, newPRs |-> 0, updatedPRs |-> 0]
    /\ thrown = ""
    /\ attempt = 1
    /\ upserts = << >>
    /\ cur = 0
    /\ allResult = [totalRepositories |-> 0, successfulSyncs |-> 0, failedSyncs |-> 0,
                    results |-> << >>]
    /\ log = << >>

\* syncAll up to the loop: no active repository is an error
SyncAllStart ==
    /\ pc = "syncAll"
    /\ LET activeRepos == getActiveRepositories(repos)
       IN IF activeRepos = << >>
          THEN /\ thrown' = "No repositories are being tracked"
               /\ pc' = "allRejected"
               /\ UNCHANGED <<cur, allResult>>
          ELSE /\ allResult' = [totalRepositories |-> Len(activeRepos),
                                successfulSyncs |-> 0, failedSyncs |-> 0,
                                results |-> << >>]
               /\ cur' = 1
               /\ pc' = "next"
               /\ UNCHANGED thrown
    /\ UNCHANGED <<opts, head, padLen, padOrder, store0, store, now, page, idx, snap, newPRs,
                   updatedPRs, totalProcessed, result, progress, calls, faults,
                   lastDecision, ideal, attempt, upserts, repos, log>>

\* the loop takes the next repository: SyncOrchestrator.syncRepository builds
\* the options and calls the sync service
StartRepo ==
    /\ pc = "next"
    /\ LET repo == getActiveRepositories(repos)[cur]
       IN /\ opts' = [force |-> opts.force,
                      repository |-> repo.name,
                      since |-> IF repo.syncSince # Null /\ (repo.lastSyncAt = Null \/ opts.force)
                                THEN repo.syncSince ELSE Null]
          /\ head' = RepoFeed(repo.name)
          /\ store' = RepoRows(repo)
          /\ store0' = RepoRows(repo)
          /\ ideal' = [store |-> RepoRows(repo), now |-> now, newPRs |-> 0, updatedPRs |-> 0]
          /\ log' = Append(log, [kind |-> "attempt", repo |-> repo.name])
    /\ pc' = "idle"
    /\ page' = 0
    /\ idx' = 0
    /\ snap' = [lastSyncedPRNumber |-> 0, lastSyncTime |-> Null]
    /\ newPRs' = << >>
    /\ updatedPRs' = << >>
    /\ totalProcessed' = 0
    /\ result' = NoResult
    /\ progress' = << >>
    /\ calls' = << >>
    /\ faults' = {}
    /\ lastDecision' = NoDecision
    /\ UNCHANGED <<padLen, padOrder, now, thrown, attempt, upserts, repos, cur, allResult>>

\* the position after the current one, or the end of the loop
Advance ==
    /\ cur' = cur + 1
    /\ pc' = IF cur < Len(getActiveRepositories(repos)) THEN "next" ELSE "allDone"

\* a caught failure that ends syncAll instead of going on with the loop
RecordFailureAndStop ==
    /\ pc = "rejected"
    /\ cur > 0
    /\ LET repo == getActiveRepositories(repos)[cur]
       IN /\ allResult' = [allResult EXCEPT
                               !.failedSyncs = @ + 1,
                               !.results = Append(@, [repository |-> repo.name,
                                                      success |-> FALSE,
                                                      result |-> NoResult,
                                                      error |-> thrown])]
          /\ repos' = updateRepositorySync(repos, repo.name, now,
                                           << [error |-> thrown, type |-> "unknown"] >>)
          /\ log' = log \o << [kind |-> "track", repo |-> repo.name],
                              [kind |-> "onError", repo |-> repo.name] >>
    /\ pc' = "allDone"
    /\ cur' = cur + 1
    /\ UNCHANGED thrown
    /\ UNCHANGED <<opts, head, padLen, padOrder, store0, store, now, page, idx, snap, newPRs,
                   updatedPRs, totalProcessed, result, progress, calls, faults,
                   lastDecision, ideal, attempt, upserts>>

\* the attempt returned a result: it is counted as successful, written to the
\* tracking state and handed to onComplete
RecordSuccess ==
    /\ pc = "done"
    /\ cur > 0
    /\ LET repo == getActiveRepositories(repos)[cur]
       IN /\ allResult' = [allResult EXCEPT
                               !.successfulSyncs = @ + 1,
                               !.results = Append(@, [repository |-> repo.name,
                                                      success |-> TRUE,
                                                      result |-> result,
                                                      error |-> ""])]
          /\ repos' = updateRepositorySync(repos, repo.name, result.lastSyncAt,
                                           ApiErrors(result.errors))
          /\ log' = log \o << [kind |-> "track", repo |-> repo.name],
                              [kind |-> "onComplete", repo |-> repo.name] >>
    /\ Advance
    /\ UNCHANGED <<opts, head, padLen, padOrder, store0, store, now, page, idx, snap, newPRs,
                   updatedPRs, totalProcessed, result, progress, calls, faults,
                   lastDecision, ideal, thrown, attempt, upserts>>

\* the attempt threw: the error is caught, counted as failed, written to the
\* tracking state and handed to onError
RecordFailure ==
    /\ pc = "rejected"
    /\ cur > 0
    /\ LET repo == getActiveRepositories(repos)[cur]
       IN /\ allResult' = [allResult EXCEPT
                               !.failedSyncs = @ + 1,
                               !.results = Append(@, [repository |-> repo.name,
                                                      success |-> FALSE,
                                                      result |-> NoResult,
                                                      error |-> thrown])]
          /\ repos' = updateRepositorySync(repos, repo.name, now,
                                           << [error |-> thrown, type |-> "unknown"] >>)
          /\ log' = log \o << [kind |-> "track", repo |-> repo.name],
                              [kind |-> "onError", repo |-> repo.name] >>
    /\ thrown' = ""
    /\ Advance
    /\ UNCHANGED <<opts, head, padLen, padOrder, store0, store, now, page, idx, snap, newPRs,
                   updatedPRs, totalProcessed, result, progress, calls, faults,
                   lastDecision, ideal, attempt, upserts>>

NextSyncAll ==
    \/ SyncAllStart
    \/ StartRepo
    \/ Next
    \/ RecordSuccess
    \/ RecordFailure

SpecSyncAll == InitSyncAll /\ [][NextSyncAll]_vars

(***************************************************************************)
(* syncAll when writing the tracking state can fail                        *)
(***************************************************************************)
WriteFailed == "Failed to save configuration"

\* the attempt returned a result and the tracking write in the try block
\* throws: the repository was counted and pushed as successful already, the
\* catch counts and pushes it once more as failed and writes again; when that
\* write throws too, the error leaves syncAll through the finally
RecordSuccessWriteThrows ==
    /\ pc = "done"
    /\ cur > 0
    /\ LET repo == getActiveRepositories(repos)[cur]
       IN /\ allResult' = [allResult EXCEPT
                               !.successfulSyncs = @ + 1,
                               !.failedSyncs = @ + 1,
                               !.results = @ \o << [repository |-> repo.name,
                                                    success |-> TRUE,
                                                    result |-> result,
                                                    error |-> ""],
                                                   [repository |-> repo.name,
                                                    success |-> FALSE,
                                                    result |-> NoResult,
                                                    error |-> WriteFailed] >>]
          /\ \E secondOk \in BOOLEAN :
                IF secondOk
                THEN /\ repos' = updateRepositorySync(repos, repo.name, now,
                                      << [error |-> WriteFailed, type |-> "unknown"] >>)
                     /\ log' = log \o << [kind |-> "track", repo |-> repo.name],
                                         [kind |-> "onError", repo |-> repo.name] >>
                     /\ Advance
                     /\ UNCHANGED thrown
                ELSE /\ thrown' = WriteFailed
                     /\ pc' = "allRejected"
                     /\ UNCHANGED <<repos, log, cur>>
    /\ UNCHANGED <<opts, head, padLen, padOrder, store0, store, now, page, idx, snap, newPRs,
                   updatedPRs, totalProcessed, result, progress, calls, faults,
                   lastDecision, ideal, attempt, upserts>>

\* the attempt threw and the tracking write in the catch block throws: the
\* failure was counted and pushed, the error leaves syncAll
RecordFailureWriteThrows ==
    /\ pc = "rejected"
    /\ cur > 0
    /\ LET repo == getActiveRepositories(repos)[cur]
       IN allResult' = [allResult EXCEPT
                            !.failedSyncs = @ + 1,
                            !.results = Append(@, [repository |-> repo.name,
                                                   success |-> FALSE,
                                                   result |-> NoResult,
                                                   error |-> thrown])]
    /\ thrown' = WriteFailed
    /\ pc' = "allRejected"
    /\ UNCHANGED <<opts, head, padLen, padOrder, store0, store, now, page, idx, snap, newPRs,
                   updatedPRs, totalProcessed, result, progress, calls, faults,
                   lastDecision, ideal, attempt, upserts, repos, cur, log>>

NextTrackFault ==
    \/ NextSyncAll
    \/ RecordSuccessWriteThrows
    \/ RecordFailureWriteThrows

SpecTrackFault == InitSyncAll /\ [][NextTrackFault]_vars

(***************************************************************************)
(* The store on its own: addPR and addReview called directly               *)
(***************************************************************************)
\* most upserts of PR records in one run
MaxUpserts == 3

\* PullRequest records handed to addPR
StoreRecords ==
    [number : 1..2, merged_at : {Null, 2}, has_tests : BOOLEAN,
     synced_at : {NowStart}]

\* Review records handed to addReview
StoreReviews ==
    [pr_number : 1..2, reviewer : {"reviewer1"}, state : {"APPROVED", "COMMENTED"},
     submitted_at : {2}, synced_at : {NowStart}]

InitStore ==
    /\ opts = [force |-> FALSE, since |-> Null, repository |-> OwnerRepo]
    /\ head = << >>
    /\ padLen = 0
    /\ padOrder = "asc"
    /\ store0 \in {EmptyStore,
                   [prs |-> (1 :> OldRow(1, TRUE)),
                    reviews |-> (<<1, "reviewer3">> :> OldReview(1))]}
    /\ store = store0
    /\ now = NowStart
    /\ pc = "store"
    /\ page = 0
    /\ idx = 0
    /\ snap = [lastSyncedPRNumber |-> 0, lastSyncTime |-> Null]
    /\ newPRs = << >>
    /\ updatedPRs = << >>
    /\ totalProcessed = 0
    /\ result = NoResult
    /\ progress = << >>
    /\ calls = << >>
    /\ faults = {}
    /\ lastDecision = NoDecision
    /\ ideal = [store |-> store0, now |-> NowStart, newPRs |-> 0, updatedPRs |-> 0]
    /\ NoOrchestrator

\* store.addPR(pr)
StoreAddPR ==
    /\ pc = "store"
    /\ Len(upserts) < MaxUpserts
    /\ \E pr \in StoreRecords :
         /\ store' = addPR(store, pr)
         /\ upserts' = Append(upserts, pr)
    /\ UNCHANGED <<opts, head, padLen, padOrder, store0, now, pc, page, idx, snap, newPRs,
                   updatedPRs, totalProcessed, result, progress, calls, faults,
                   lastDecision, ideal, thrown, attempt, repos, cur, allResult, log>>

\* store.addReview(review): the PR of a review must be stored (foreign key)
StoreAddReview ==
    /\ pc = "store"
    /\ \E review \in StoreReviews :
         /\ review.pr_number \in DOMAIN store.prs
         /\ store' = addReview(store, review)
    /\ UNCHANGED <<opts, head, padLen, padOrder, store0, now, pc, page, idx, snap, newPRs,
                   updatedPRs, totalProcessed, result, progress, calls, faults,
                   lastDecision, ideal>>
    /\ UNCHANGED orchVars

NextStore ==
    \/ StoreAddPR
    \/ StoreAddReview

SpecStore == InitStore /\ [][NextStore]_vars

(***************************************************************************)
(* The classifier on its own: shouldProcessPR applied to bounded inputs    *)
(***************************************************************************)
ClassifyNumbers == 0..(MaxNumber + 1)

ClassifyStates == {"open", "closed", "merged", "draft"}

ClassifyTimes == {Null} \cup UpdateTimes \cup {EarlierSyncTime}

\* stores whose rows carry a sync time, or none
ClassifyStores ==
    {[prs |-> [n \in S |-> [OldRow(n, TRUE) EXCEPT !.synced_at = t]], reviews |-> << >>] :
        S \in SUBSET {1, MaxNumber}, t \in {Null, EarlierSyncTime}}

InitClassify ==
    /\ opts = [force |-> FALSE, since |-> Null, repository |-> OwnerRepo]
    /\ head = << >>
    /\ padLen = 0
    /\ padOrder = "asc"
    /\ store0 \in ClassifyStores
    /\ store = store0
    /\ now = NowStart
    /\ pc = "classify"
    /\ page = 0
    /\ idx = 0
    /\ snap = [lastSyncedPRNumber |-> getLastSyncedPRNumber(store0),
               lastSyncTime |-> getLastSyncTime(store0)]
    /\ newPRs = << >>
    /\ updatedPRs = << >>
    /\ totalProcessed = 0
    /\ result = [totalPRs |-> 0, newPRs |-> 0, updatedPRs |-> 0, newReviews |-> 0,
                 errors |-> << >>, lastSyncAt |-> Null]
    /\ progress = << >>
    /\ calls = << >>
    /\ faults = {}
    /\ lastDecision = NoDecision
    /\ ideal = [store |-> store0, now |-> NowStart, newPRs |-> 0, updatedPRs |-> 0]
    /\ NoOrchestrator

\* one call of shouldProcessPR
Classify ==
    /\ pc = "classify"
    /\ \E n \in ClassifyNumbers, s \in ClassifyStates, u \in ClassifyTimes :
         lastDecision' = [number |-> n, state |-> s, updated_at |-> u,
                          reason |-> shouldProcessPR(store, n, s, u).reason]
    /\ UNCHANGED <<opts, head, padLen, padOrder, store0, store, now, pc, page, idx, snap,
                   newPRs, updatedPRs, totalProcessed, result, progress, calls, faults,
                   ideal>>
    /\ UNCHANGED orchVars

SpecClassify == InitClassify /\ [][Classify]_vars

(***************************************************************************)
(* Properties                                                              *)
(***************************************************************************)
Classified == lastDecision.reason # "none"

\* the list requests among the calls, in order
ListCalls == SelectSeq(calls, LAMBDA c : c.kind = "list")

NoPageFailed == \A f \in faults : f[1] # "list"

\* C1: within a non-force attempt every candidate is classified against the
\* sync state snapshotted at the start of the attempt, whatever was upserted
\* earlier in the same attempt.
C1_SnapshotClassifies ==
    (pc # "classify" /\ Classified) =>
        lastDecision.reason =
            classify(snap.lastSyncedPRNumber, snap.lastSyncTime, lastDecision.number,
                     lastDecision.state, lastDecision.updated_at).reason

\* every PR of the feed is closed (merged)
AllClosed == \A i \in 1..FeedLen : FeedAt(i).state = "closed"

\* C2: a non-force sync of an empty store whose feed delivers k closed PRs with
\* distinct numbers, no request failing, ends with total = k, new = k,
\* updated = 0, no errors and k stored rows.
C2_EmptyStoreAllNew ==
    (pc = "done" /\ ~opts.force /\ store0 = EmptyStore /\ faults = {} /\ AllClosed) =>
        /\ result.totalPRs = FeedLen
        /\ result.newPRs = FeedLen
        /\ result.updatedPRs = 0
        /\ result.errors = << >>
        /\ Cardinality(DOMAIN store.prs) = FeedLen

\* C3: a candidate whose number is above lastSyncedPRNumber is New, whatever
\* its state and update time and whatever lastSyncTime is.
C3_AboveLastIsNew ==
    (Classified /\ pc = "classify"
        /\ lastDecision.number > getLastSyncedPRNumber(store)) =>
        lastDecision.reason = "new-pr"

C3_Witness ==
    /\ pc = "classify"
    /\ Classified
    /\ lastDecision.number > getLastSyncedPRNumber(store)
    /\ getLastSyncedPRNumber(store) > 0
    /\ lastDecision.state = "merged"
    /\ getLastSyncTime(store) = Null

\* C4: on a candidate whose number is at most lastSyncedPRNumber the decision is
\* SkipImmutable for a closed or merged one, UpdatedOpen for an open one exactly
\* when lastSyncTime is set and the update is later, SkipUnchanged otherwise.
C4_DecisionTable ==
    (Classified /\ pc = "classify"
        /\ lastDecision.number <= getLastSyncedPRNumber(store)) =>
        LET terminal == lastDecision.state \in {"closed", "merged"}
            updated == /\ lastDecision.state = "open"
                       /\ getLastSyncTime(store) # Null
                       /\ lastDecision.updated_at > getLastSyncTime(store)
        IN /\ lastDecision.reason \in {"immutable-closed", "updated-open-pr", "already-synced"}
           /\ lastDecision.reason = "immutable-closed" <=> terminal
           /\ lastDecision.reason = "updated-open-pr" <=> (~terminal /\ updated)
           /\ lastDecision.reason = "already-synced" <=> (~terminal /\ ~updated)

C4_Witness ==
    /\ pc = "classify"
    /\ lastDecision.reason = "already-synced"
    /\ lastDecision.state = "open"
    /\ lastDecision.updated_at > EarlierSyncTime
    /\ getLastSyncTime(store) = Null
    /\ lastDecision.number <= getLastSyncedPRNumber(store)

\* the PRs the feed has returned so far, over the pages that were answered
Returned ==
    Min2(FeedLen, perPage * Cardinality({i \in DOMAIN calls :
                                            calls[i].kind = "list" /\ calls[i].ok}))

\* PR n was given both auxiliary fetches and upserted in this attempt
Reprocessed(n) ==
    /\ n \in DOMAIN store.prs
    /\ store.prs[n].synced_at >= NowStart
    /\ \E i \in DOMAIN calls : calls[i].kind = "files" /\ calls[i].arg = n
    /\ \E i \in DOMAIN calls : calls[i].kind = "reviews" /\ calls[i].arg = n

ForceProcessesAll ==
    /\ ~Classified
    /\ \A i \in 1..Returned : Reprocessed(FeedAt(i).number)

\* C5: in force mode every PR the feed returned is treated as New, fetched and
\* upserted whatever the store holds; the classifier is never called,
\* result.newPRs is the number of PRs returned and result.updatedPRs is 0.
C5_ForceAllNew ==
    (pc = "done" /\ opts.force) =>
        /\ ForceProcessesAll
        /\ result.newPRs = Returned
        /\ result.updatedPRs = 0

\* the same, for the attempts that no page failure cut short
C5_ForceAllNewCompleted ==
    (pc = "done" /\ opts.force /\ NoPageFailed) =>
        /\ ForceProcessesAll
        /\ result.newPRs = Returned
        /\ result.updatedPRs = 0

\* the largest synced_at of the rows the attempt found
StoredSyncTime ==
    IF DOMAIN store0.prs = {} THEN Null
    ELSE Max({store0.prs[n].synced_at : n \in DOMAIN store0.prs})

FirstShortPage == (FeedLen \div perPage) + 1

PagesAsClaimed ==
    /\ Len(ListCalls) = FirstShortPage
    /\ \A i \in DOMAIN ListCalls : ListCalls[i].arg = i
    /\ \A p \in 1..(FirstShortPage - 1) : PageLen(p) = perPage
    /\ PageLen(FirstShortPage) < perPage

\* requests and loop iterations the attempt has behind it
Consumed ==
    IF pc = "idle" THEN 0
    ELSE IF pc = "list" THEN 1 + (page - 1) * perPage + (page - 1)
    ELSE 1 + (page - 1) * perPage + (idx - 1) + page

\* steps the attempt has left at most: 0 once syncRepository has returned
Rank ==
    IF pc \in {"done", "rejected"} THEN 0
    ELSE 3 + FeedLen + FirstShortPage - Consumed

\* C7: pagination ends: pages 1, 2, ..., k are requested, k being the first page
\* with fewer than 100 PRs, and no page is requested after it.
C7_Pagination ==
    /\ [](Rank >= 0)
    /\ [][Rank' < Rank]_vars
    /\ [](pc = "done" /\ NoPageFailed => PagesAsClaimed)

C7_Witness ==
    /\ pc = "done"
    /\ NoPageFailed
    /\ FeedLen = 2 * perPage + 37
    /\ Len(ListCalls) = 3

\* C8: a file-list or review-list fetch that throws leaves an error entry for
\* that PR in the SyncResult of the attempt.
C8_AuxFailureRecorded ==
    pc = "done" =>
        \A f \in faults :
            f[1] \in {"files", "reviews"} =>
                \E i \in DOMAIN result.errors : result.errors[i].pr = f[2]

Range(q) == {q[i] : i \in DOMAIN q}

\* C9: a failed auxiliary fetch aborts nothing: the PR is upserted (has_tests
\* FALSE after a failed file fetch) and counted, and every other PR is
\* processed and stored as in the attempt without the failure.
C9_FailureIsolated ==
    /\ DOMAIN store.prs = DOMAIN ideal.store.prs
    /\ \A n \in DOMAIN store.prs :
         store.prs[n] = IF <<"files", n>> \in faults
                        THEN [ideal.store.prs[n] EXCEPT !.has_tests = FALSE]
                        ELSE ideal.store.prs[n]
    /\ DOMAIN store.reviews \subseteq DOMAIN ideal.store.reviews
    /\ \A k \in DOMAIN ideal.store.reviews :
         <<"reviews", k[1]>> \notin faults =>
             k \in DOMAIN store.reviews /\ store.reviews[k] = ideal.store.reviews[k]
    /\ Len(newPRs) = ideal.newPRs
    /\ Len(updatedPRs) = ideal.updatedPRs
    /\ \A f \in faults :
         f[1] # "list" =>
             f[2] \in DOMAIN store.prs /\ f[2] \in Range(newPRs) \cup Range(updatedPRs)
    /\ (pc = "done" /\ NoPageFailed) =>
         /\ result.newPRs = ideal.newPRs
         /\ result.updatedPRs = ideal.updatedPRs
         /\ result.totalPRs = ideal.newPRs + ideal.updatedPRs

C9_Witness ==
    /\ pc = "done"
    /\ NoPageFailed
    /\ page = 2
    /\ <<"files", 1>> \in faults
    /\ ~store.prs[1].has_tests
    /\ ideal.store.prs[1].has_tests
    /\ Cardinality(DOMAIN store.prs) > perPage
    /\ result.totalPRs > perPage

AnyPageFailed == \E f \in faults : f[1] = "list"

\* C10: a failed page fetch ends the attempt: no request follows it, the page
\* is not asked for again, and syncRepository returns a SyncResult with
\* exactly one error entry.
C10_FatalAborts ==
    AnyPageFailed =>
        /\ pc = "done"
        /\ calls[Len(calls)].kind = "list" /\ ~calls[Len(calls)].ok
        /\ \A i \in 1..(Len(calls) - 1) : calls[i].ok \/ calls[i].kind # "list"
        /\ Cardinality({i \in DOMAIN calls : calls[i].kind = "list"
                            /\ calls[i].arg = calls[Len(calls)].arg}) = 1
        /\ Len(result.errors) = 1
        /\ result.errors[1].pr = 0

C10_Witness ==
    /\ pc = "done"
    /\ <<"list", 2>> \in faults
    /\ <<"files", 1>> \in faults
    /\ Len(result.errors) = 1

\* C11: when processing of an accepted PR throws (the store write of its record
\* fails), the SyncResult returned holds an error entry for that PR number.
C11_ThrowRecorded ==
    pc = "done" =>
        \A f \in faults :
            f[1] = "store" =>
                \E i \in DOMAIN result.errors : result.errors[i].pr = f[2]

Malformed(repository) ==
    LET slashes == {i \in DOMAIN repository : repository[i] = "/"}
    IN \/ slashes = {}
       \/ Cardinality(slashes) > 1
       \/ repository[1] = "/"
       \/ repository[Len(repository)] = "/"

\* C12: an identifier that is not owner/repo (no slash, several slashes, an
\* empty part) makes syncRepository fail with 'Invalid repository format'
\* before any request, progress event or store write.
C12_MalformedRejected ==
    (Malformed(opts.repository) /\ pc # "idle") =>
        /\ pc = "rejected"
        /\ thrown = InvalidFormat
        /\ calls = << >>
        /\ progress = << >>
        /\ store = store0

C12_Witness ==
    /\ pc = "rejected"
    /\ thrown = InvalidFormat
    /\ Len(opts.repository) = 2
    /\ opts.repository[1] = "o"
    /\ opts.repository[2] = "/"
    /\ store # EmptyStore

\* names of the active repositories, in the order of the configuration
ActiveNames ==
    LET activeRepos == getActiveRepositories(repos)
    IN [i \in DOMAIN activeRepos |-> activeRepos[i].name]

\* names of the repositories whose attempt was started, in order
Attempted ==
    LET starts == SelectSeq(log, LAMBDA e : e.kind = "attempt")
    IN [i \in DOMAIN starts |-> starts[i].repo]

IsPrefix(a, b) == Len(a) <= Len(b) /\ a = SubSeq(b, 1, Len(a))

InAttempt == pc \in {"idle", "list", "pr", "done", "rejected"}

Tracked(name) == repos[CHOOSE i \in DOMAIN repos : repos[i].name = name]

UpsertsOf(n) == {i \in DOMAIN upserts : upserts[i].number = n}

\* C15: after any sequence of upserts the store holds one PullRequestRecord
\* per number, equal field for field to the record upserted last for that
\* number; upserting a record a second time changes nothing.
C15_UpsertOverwrites ==
    /\ DOMAIN store.prs = DOMAIN store0.prs \cup {upserts[i].number : i \in DOMAIN upserts}
    /\ \A n \in DOMAIN store.prs :
         /\ store.prs[n].number = n
         /\ store.prs[n] = IF UpsertsOf(n) = {} THEN store0.prs[n]
                           ELSE upserts[Max(UpsertsOf(n))]
    /\ Cardinality(getPRs(store)) = Cardinality(DOMAIN store.prs)
    /\ \A pr \in StoreRecords : addPR(addPR(store, pr), pr) = addPR(store, pr)

C15_Witness ==
    /\ pc = "store"
    /\ Len(upserts) = 3
    /\ upserts[1].number = 1 /\ upserts[1].merged_at = 2
    /\ upserts[2].number = 2
    /\ upserts[3].number = 1 /\ upserts[3].merged_at = Null
    /\ store.prs[1].merged_at = Null
    /\ store0 # EmptyStore
    /\ <<2, "reviewer1">> \in DOMAIN store.reviews

\* review entries that carry a reviewer, a state and a submission time
ValidEntries(n) ==
    SelectSeq(UpstreamReviews(n),
              LAMBDA e : e.login # "" /\ e.state # "" /\ e.submitted_at # Null)

\* the entry of the review list of PR n seen last for a reviewer
LastEntryBy(n, reviewer) ==
    LET entries == ValidEntries(n)
    IN entries[Max({i \in DOMAIN entries : entries[i].login = reviewer})]

\* the review list of PR n was fetched in this attempt
ReviewsSeen(n) ==
    \E i \in DOMAIN calls : calls[i].kind = "reviews" /\ calls[i].arg = n /\ calls[i].ok

\* C16: the store holds one ReviewRecord per (PR, reviewer), in the state seen
\* last for that reviewer: a later entry of the review list replaces an
\* earlier one by the same reviewer, and a re-sync replaces what an earlier
\* sync stored.
C16_LatestReviewState ==
    /\ \A k \in DOMAIN store.reviews :
         store.reviews[k].pr_number = k[1] /\ store.reviews[k].reviewer = k[2]
    /\ \A n \in 1..MaxNumber :
         ReviewsSeen(n) =>
             \A e \in Range(ValidEntries(n)) :
                 /\ <<n, e.login>> \in DOMAIN store.reviews
                 /\ store.reviews[<<n, e.login>>].state = LastEntryBy(n, e.login).state
                 /\ store.reviews[<<n, e.login>>].submitted_at
                        = LastEntryBy(n, e.login).submitted_at

C16_Witness ==
    /\ pc = "done"
    /\ <<1, "reviewer1">> \in DOMAIN store0.reviews
    /\ ReviewsSeen(1)
    /\ store0.reviews[<<1, "reviewer1">>].state = "COMMENTED"
    /\ store.reviews[<<1, "reviewer1">>].state = "APPROVED"
    /\ ReviewsSeen(3)
    /\ store.reviews[<<3, "reviewer2">>].state = "APPROVED"

\* C17: after an attempt that was interrupted at any point, an uninterrupted
\* non-force sync against the unchanged remote leaves a record for every PR
\* of the repository in the store.
C17_Resumable ==
    (pc = "done" /\ attempt = 2 /\ faults = {}) =>
        \A i \in 1..FeedLen : FeedAt(i).number \in DOMAIN store.prs

\* PR n was stored as open by the earlier sync and the feed now lists it as
\* closed, updated after the last sync time
ClosedSince(n) ==
    /\ n \in DOMAIN store0.prs
    /\ store0.prs[n].merged_at = Null
    /\ \E i \in 1..FeedLen :
         /\ FeedAt(i).number = n
         /\ FeedAt(i).state = "closed"
         /\ FeedAt(i).updated_at > getLastSyncTime(store0)

\* C18: a PR stored while open and since merged or closed upstream is fetched
\* again by the next non-force sync and its record is overwritten.
C18_StatusChangeDetected ==
    (pc = "done" /\ ~opts.force /\ faults = {}) =>
        \A n \in 1..MaxNumber :
            ClosedSince(n) => Reprocessed(n) /\ store.prs[n].merged_at # Null

\* C19: the last progress event of an attempt that got past the validation of
\* the identifier is complete, after a normal end and after a fatal page
\* failure.
C19_CompleteIsLast ==
    pc = "done" =>
        /\ progress # << >>
        /\ progress[Len(progress)].phase = "complete"
        /\ \A i \in 1..(Len(progress) - 1) : progress[i].phase # "complete"

\* positions of the processing events
Processing == {i \in DOMAIN progress : progress[i].phase = "processing"}

\* pages whose PRs have all been handled
PagesHandled ==
    IF pc = "done" /\ NoPageFailed THEN (FeedLen + perPage - 1) \div perPage
    ELSE page - 1

CurrentRepo == getActiveRepositories(repos)[cur]

\* C21: on the first non-force sync of a repository tracked with a syncSince
\* cutoff and without stored records, every page request carries that cutoff
\* as since.
C21_CutoffRequested ==
    (/\ cur > 0
     /\ pc \in {"list", "pr", "done"}
     /\ ~opts.force
     /\ store0 = EmptyStore
     /\ CurrentRepo.syncSince # Null
     /\ CurrentRepo.lastSyncAt = Null) =>
        \A i \in DOMAIN calls :
            calls[i].kind = "list" => calls[i].since = CurrentRepo.syncSince

\* C22: classification never ends the pagination: after the last PR of a full
\* page the next page is requested, also when every PR of the page was
\* skipped.
C22_PagingThroughSkipped ==
    /\ [][(pc = "pr" /\ idx = PageLen(page) /\ PageLen(page) = perPage) =>
              (pc' = "list" /\ page' = page + 1)]_vars
    /\ [][pc = "list" =>
              /\ Len(calls') = Len(calls) + 1
              /\ calls'[Len(calls')].kind = "list"
              /\ calls'[Len(calls')].arg = page]_vars

C22_Witness ==
    /\ page = 2
    /\ pc = "done"
    /\ totalProcessed = 0
    /\ FeedLen > perPage
    /\ lastDecision.reason = "immutable-closed"
    /\ Len(calls) = 2
    /\ \A i \in 1..2 : calls[i].kind = "list" /\ calls[i].arg = i /\ calls[i].ok
    /\ result.totalPRs = 0

\* what the store holds about PR n: its record and its review records
RowsOf(db, n) ==
    [pr |-> IF n \in DOMAIN db.prs THEN << db.prs[n] >> ELSE << >>,
     reviews |-> {<< k, db.reviews[k] >> : k \in {j \in DOMAIN db.reviews : j[1] = n}}]

\* the PRs an auxiliary request was made for
Touched == {calls[i].arg : i \in {j \in DOMAIN calls : calls[j].kind # "list"}}

SkipReasons == {"immutable-closed", "already-synced"}

\* C23: a PR classified as skipped causes no file-list request, no review-list
\* request and no store write: the step that skips it changes neither the
\* calls, the store nor the counts, what the store holds about it stays what
\* it was before the attempt, and it is in neither newPRs nor updatedPRs.
C23_SkippedUntouched ==
    /\ [][(pc = "pr" /\ ~opts.force /\ ~Decision(CurrentPR).shouldProcess) =>
              /\ calls' = calls
              /\ store' = store
              /\ newPRs' = newPRs
              /\ updatedPRs' = updatedPRs
              /\ totalProcessed' = totalProcessed
              /\ result'.newReviews = result.newReviews]_vars
    /\ [](lastDecision.reason \in SkipReasons =>
              /\ lastDecision.number \notin Touched
              /\ lastDecision.number \notin Range(newPRs) \cup Range(updatedPRs))
    /\ [](\A n \in DOMAIN store0.prs :
              n \notin Touched => RowsOf(store, n) = RowsOf(store0, n))

C23_Witness ==
    /\ pc = "done"
    /\ lastDecision.reason = "already-synced"
    /\ lastDecision.number = 1
    /\ newPRs = << 2 >>
    /\ updatedPRs = << >>
    /\ Touched = {2}
    /\ RowsOf(store0, 1).reviews # {}
    /\ RowsOf(store, 1) = RowsOf(store0, 1)
    /\ result.newPRs = 1 /\ result.updatedPRs = 0

\* the number of the PR at position i of page p of the feed
NumberAt(p, i) == FeedAt((p - 1) * perPage + i).number

InvalidOnly(n) ==
    {e.login : e \in Range(UpstreamReviews(n))} \ {e.login : e \in Range(ValidEntries(n))}

RECURSIVE ValidSeen(_)
\* the valid entries of the review lists fetched for the PRs 1..n
ValidSeen(n) ==
    IF n = 0 THEN 0
    ELSE ValidSeen(n - 1) + (IF ReviewsSeen(n) THEN Len(ValidEntries(n)) ELSE 0)

\* C25: a review entry without reviewer, state or submission time yields no
\* review record, no error entry and no increment of newReviews, and the
\* valid entries after it in the same list are stored and counted.
C25_InvalidDropped ==
    /\ \A n \in 1..MaxNumber :
         ReviewsSeen(n) =>
             /\ \A l \in InvalidOnly(n) : << n, l >> \notin DOMAIN store.reviews
             /\ \A e \in Range(ValidEntries(n)) : << n, e.login >> \in DOMAIN store.reviews
             /\ \A i \in DOMAIN result.errors : result.errors[i].pr # n
    /\ result.newReviews = ValidSeen(MaxNumber)

C25_Witness ==
    /\ pc = "done"
    /\ ReviewsSeen(2)
    /\ InvalidOnly(2) = {"", "reviewer4", "reviewer5"}
    /\ << 2, "reviewer1" >> \in DOMAIN store.reviews
    /\ store.reviews[<< 2, "reviewer1" >>].state = "COMMENTED"
    /\ {k \in DOMAIN store.reviews : k[1] = 2} = {<< 2, "reviewer1" >>}
    /\ result.newReviews = 1
    /\ result.errors = << >>

\* C26: after the attempt of a repository the error list of its tracking
\* entry is the error list of that attempt (its last five entries): nothing
\* an earlier attempt recorded remains after an attempt without errors.
C26_ErrorsReplaced ==
    \A j \in DOMAIN allResult.results :
        LET r == allResult.results[j]
        IN Tracked(r.repository).errors =
               IF r.success THEN Last(ApiErrors(r.result.errors), 5)
               ELSE << [error |-> r.error, type |-> "unknown"] >>

\* the PR records written during the attempt
WrittenNow == {n \in DOMAIN store.prs : store.prs[n].synced_at >= NowStart}

\* C27: the counts of a returned result match what the attempt wrote:
\* totalPRs = newPRs + updatedPRs, and the sum is the number of PR records
\* upserted during the attempt, also after a fatal page-fetch error.
C27_CountsMatchWrites ==
    pc = "done" =>
        /\ result.totalPRs = result.newPRs + result.updatedPRs
        /\ result.totalPRs = Cardinality(WrittenNow)

\* C28: upserting a PR record for a stored key leaves the stored review
\* records as they are: a review stored by an earlier sync is still there,
\* unchanged, unless the review list of its PR was fetched in this attempt.
C28_ReviewsSurviveUpsert ==
    \A k \in DOMAIN store0.reviews :
        ~ReviewsSeen(k[1]) =>
            k \in DOMAIN store.reviews /\ store.reviews[k] = store0.reviews[k]

\* C29: when syncAll returns, results holds exactly one entry per active
\* repository, in the order attempted, and successfulSyncs + failedSyncs =
\* totalRepositories, also when a write of the tracking state failed.
C29_OneEntryPerRepository ==
    pc = "allDone" =>
        LET activeRepos == getActiveRepositories(repos)
        IN /\ Len(allResult.results) = Len(activeRepos)
           /\ \A j \in DOMAIN allResult.results :
                  j <= Len(activeRepos) =>
                      allResult.results[j].repository = activeRepos[j].name
           /\ allResult.successfulSyncs + allResult.failedSyncs
                  = allResult.totalRepositories

\* C30: a repository whose attempt ended with a fatal page-fetch error is
\* reported as failed: no results entry with success = TRUE carries the
\* error of an aborted attempt, and onComplete is not invoked for it.
C30_FatalReportedFailed ==
    /\ \A j \in DOMAIN allResult.results :
         LET r == allResult.results[j]
         IN r.success => \A i \in DOMAIN r.result.errors : r.result.errors[i].pr # 0
    /\ (pc = "done" /\ cur > 0 /\ AnyPageFailed) =>
           ~ENABLED RecordSuccess

====
